---- MODULE Spec2Model ----
(***************************************************************************)
(* MetaCleaner (src/src/main.py): the /show/ and /clean/ request pipeline, *)
(* the process-wide ProcessPoolExecutor and the working directory.         *)
(*                                                                         *)
(* Request handlers run on one asyncio event loop; clean_meta runs in the  *)
(* pool's worker processes, truly in parallel with the handlers.  The      *)
(* metadata engine (libmat2) is an external collaborator: its outcome on a *)
(* file is an input of the request (ftype), not computed here.             *)
(***************************************************************************)
EXTENDS Integers, Sequences, FiniteSets, TLC

\* ------------------------------------------------------------------ bounds
MaxReqs == 2        \* requests received during a run
NWorkers == 2       \* worker processes of the pool (os.cpu_count() at line 46)
MaxFaults == 1      \* filesystem / resource faults injected by the environment

Reqs == 1 .. MaxReqs
Workers == 1 .. NWorkers
Names == {"a.pdf"}  \* client-supplied file names (file.filename)

Flows == {"show", "clean"}
\* What the engine does with the uploaded content:
\*   valid        get_parser resolves a parser, get_meta and remove_all succeed
\*   unsupported  get_parser returns (None, mtype)
\*   badparse     get_parser raises ValueError
\*   noclean      remove_all returns False (e.g. ABORT on an unknown member)
\*   rterr        remove_all raises RuntimeError, get_meta raises
\*   othererr     remove_all raises an exception that is no RuntimeError
\*   crash        the process running remove_all dies (native library fault)
\*   hang         remove_all never returns
FTypes == {"valid", "unsupported", "badparse", "noclean", "rterr", "othererr",
           "crash", "hang"}
\* /show/ runs the engine inside the serving process: a crash or hang there
\* ends the whole server, so those two inputs are explored on /clean/ only;
\* get_meta knows one success and one failure (noclean reads like valid,
\* othererr like rterr).
FlowFTypes(flow) ==
    IF flow = "show" THEN {"valid", "unsupported", "badparse", "rterr"} ELSE FTypes

\* The query parameters of a request (clean 161-163, show 93).
Policies == {"abort", "omit", "keep"}       \* libmat2.UnknownMemberPolicy
\* the declared defaults: lightweight=False, unknown_members=ABORT, sandbox=True
DefaultConfig == [lightweight |-> FALSE, unknown_members |-> "abort", sandbox |-> TRUE]
\* a configuration that differs from the defaults in every parameter
OtherConfig == [lightweight |-> TRUE, unknown_members |-> "omit", sandbox |-> FALSE]
\* four configurations in which every parameter takes each of its values and
\* lightweight and sandbox take each of their four combinations
CleanConfigs ==
    {DefaultConfig, OtherConfig,
     [lightweight |-> TRUE, unknown_members |-> "keep", sandbox |-> TRUE],
     [lightweight |-> FALSE, unknown_members |-> "keep", sandbox |-> FALSE]}
\* /show/ takes the sandbox parameter alone
FlowConfigs(flow, cfgs) ==
    IF flow = "show"
    THEN {[DefaultConfig EXCEPT !.sandbox = c.sandbox] : c \in cfgs}
    ELSE cfgs

\* ------------------------------------------------------------------ state
VARIABLES
    fs,          \* working directory: path -> [kind, data, mode, owner]
    req,         \* r -> the request's parameters and local variables
    pc,          \* r -> position of the handler coroutine
    pending,     \* r -> value being returned / exception in flight at 'finally'
    resp,        \* r -> what the client received
    future,      \* r -> the concurrent.futures.Future of the submitted task
    queue,       \* the pool's pending work items (request ids, FIFO)
    worker,      \* w -> [task, step]: what worker process w is executing
    poolBroken,  \* the executor's broken flag (set once a worker dies)
    nfaults,     \* environment faults injected so far
    removals,    \* r -> how many times the handler deleted r's artifact
    crossAccess, \* <<r, owner, path>>: r's code touched a file created by owner
    engineCalls, \* <<r, operation, where>>: engine calls and where they ran
    faults,      \* r -> the environment faults that hit request r
    health       \* the last answer of GET /healthz, with the report it was given

vars == <<fs, req, pc, pending, resp, future, queue, worker, poolBroken,
          nfaults, removals, crossAccess, engineCalls, faults, health>>

\* ------------------------------------------------------------- outcomes
NoData == <<>>
NoOutcome == [type |-> "none", status |-> 0, cls |-> "", detail |-> "", data |-> NoData]
\* return JSONResponse(...) / return StreamingResponse(...)
Success(d) == [type |-> "ok", status |-> 200, cls |-> "", detail |-> "", data |-> d]
\* raise HTTPException(status_code=s, detail=d)
HTTPException(s, d) ==
    [type |-> "http", status |-> s, cls |-> "HTTPException", detail |-> d, data |-> NoData]
\* any other exception in flight; escaping the handler it becomes the
\* framework's bare "Internal Server Error"
Raised(c, msg) == [type |-> "exc", status |-> 500, cls |-> c, detail |-> msg, data |-> NoData]
\* asyncio.CancelledError thrown into the coroutine: no response is sent
Cancelled == [type |-> "cancel", status |-> 0, cls |-> "CancelledError", detail |-> "", data |-> NoData]

\* isinstance(e, RuntimeError): BrokenProcessPool derives from RuntimeError
IsRuntimeError(c) == c \in {"RuntimeError", "BrokenProcessPool"}
\* an except clause that names RuntimeError alone
IsValueErrorUncaught(c) == FALSE
IsValueError(c) == c = "ValueError"

\* result of a pool task, as stored in its Future
NoResult == [kind |-> "none", val |-> FALSE, cls |-> "", msg |-> ""]
\* UnknownMemberPolicy(unknown_members), line 173: the enum member of a value
UnknownMemberPolicy(v) == v
\* a dispatch passing sandbox where clean_meta expects is_lightweight
CleanMetaArgsSwapped(filename, lightweight, sandbox, policy) ==
    <<filename, sandbox, TRUE, lightweight, policy>>
\* line 180: the positional arguments handed to clean_meta through the pool,
\* to be bound to (filename, is_lightweight, inplace, sandbox, policy)
CleanMetaArgs(filename, lightweight, sandbox, policy) ==
    <<filename, lightweight, TRUE, sandbox, policy>>
NoArgs == <<>>
\* the attributes clean_meta sets on the parser (215-217)
NoSettings == [unknown_member_policy |-> "", lightweight_cleaning |-> FALSE,
               sandbox |-> FALSE]
IdleWorker == [task |-> 0, step |-> "idle", parser |-> NoSettings]
\* a clean_meta that returns True whatever remove_all returned
RetTrue(b) == [kind |-> "ret", val |-> TRUE, cls |-> "", msg |-> ""]
Ret(b) == [kind |-> "ret", val |-> b, cls |-> "", msg |-> ""]
Exc(c, m) == [kind |-> "exc", val |-> FALSE, cls |-> c, msg |-> m]
BrokenProcessPool ==
    Exc("BrokenProcessPool", "A process in the process pool was terminated abruptly")

\* ----------------------------------------------------------- filesystem
R_OK == {"r"}
W_OK == {"w"}
\* "o": readable by other users, of no effect on this process's own access
DefaultMode == {"r", "w", "o"}  \* mode of a file the process just created (0644)
PrivateMode == {"r", "w"}       \* mode of a file made through tempfile (0600)
\* the engine creates its output either way, depending on the format
EngineModes == {DefaultMode, PrivateMode}

\* uuid.uuid4() of the r-th request: a value no earlier request was given
uuid4(r) == r
\* the artifact named by the client's file name alone, without the uuid
ArtifactPathNoUuid(u, name) == <<0, name, "">>
\* f'{uuid.uuid4()}{file.filename}'; the third field is the engine's suffix
ArtifactPath(u, name) == <<u, name, "">>
\* p.output_filename: the engine writes the cleaned copy beside the input
output_filename(p) == <<p[1], p[2], ".cleaned">>

exists(p) == p \in DOMAIN fs
isfile(p) == exists(p) /\ fs[p].kind = "file"
access(p, mode) == exists(p) /\ mode \subseteq fs[p].mode
\* __check_file(filename, mode)
check_file(p, mode) ==
    IF ~exists(p) THEN FALSE
    ELSE IF ~isfile(p) THEN FALSE
    ELSE IF ~access(p, mode) THEN FALSE
    ELSE TRUE

FsPut(f, p, rec) == [q \in DOMAIN f \cup {p} |-> IF q = p THEN rec ELSE f[q]]
FsDel(f, p) == [q \in DOMAIN f \ {p} |-> f[q]]
NewFile(r, d) == [kind |-> "file", data |-> d, mode |-> DefaultMode, owner |-> r]
\* a clean_meta that renames without copying the permission bits
copymode_skipped(f, src, dst) == f
\* shutil.copymode(src, dst)
copymode(f, src, dst) == [f EXCEPT ![dst].mode = f[src].mode]
\* a capture that reads the file and leaves it on disk
cache_keep_file(f, p) == f
\* cache_delete_file 232-238: the working directory once the content has been
\* read into the BytesIO buffer and os.remove(filename) has run
cache_delete_file(f, p) == FsDel(f, p)
\* request r's code operates on path p: an event if p is another request's file
Touch(r, p) == IF exists(p) /\ fs[p].owner # r THEN {<<r, fs[p].owner, p>>} ELSE {}

EmptyFs == [q \in {} |-> NoResult]

\* ------------------------------------------------------------ health probe
\* libmat2.check_dependencies(): name -> {found, required}, recomputed on
\* every call
Deps == {"Exiftool", "Ffmpeg"}
DependencyReports == [Deps -> [found : BOOLEAN, required : BOOLEAN]]
\* a probe that fails when a required dependency is missing
get_health_strict(report) ==
    IF \E d \in Deps : report[d].required /\ ~report[d].found THEN "FAIL" ELSE "OK"
\* get_health 243-248: one line is printed per dependency, "OK" is returned
get_health(report) == "OK"
\* the lines printed at 245-247: name, yes/no, the "(optional)" mark
HealthLines(report) ==
    {<<d, IF report[d].found THEN "yes" ELSE "no",
          IF ~report[d].required THEN "(optional)" ELSE "">> : d \in Deps}
NoHealth == [status |-> "", printed |-> {}]

NoReq == [flow |-> "", name |-> "", ftype |-> "", filename |-> <<0, "", "">>,
          lightweight |-> FALSE, unknown_members |-> "", sandbox |-> FALSE]

Init ==
    /\ fs = EmptyFs
    /\ req = [r \in Reqs |-> NoReq]
    /\ pc = [r \in Reqs |-> "idle"]
    /\ pending = [r \in Reqs |-> NoOutcome]
    /\ resp = [r \in Reqs |-> NoOutcome]
    /\ future = [r \in Reqs |-> [state |-> "none", result |-> NoResult, args |-> NoArgs]]
    /\ queue = <<>>
    /\ worker = [w \in Workers |-> IdleWorker]
    /\ poolBroken = FALSE
    /\ nfaults = 0
    /\ removals = [r \in Reqs |-> 0]
    /\ crossAccess = {}
    /\ engineCalls = {}
    /\ faults = [r \in Reqs |-> {}]
    /\ health = NoHealth

InFlight(r) == pc[r] \notin {"idle", "done"}
\* The event loop runs one handler at a time, and get_meta (115-128) calls
\* the engine without awaiting: while p.get_meta() executes, no other
\* handler makes a step.  The worker processes keep running.
LoopFree == \A r \in Reqs : pc[r] # "get_meta"

\* --------------------------------------------------- persisting the upload
\* show 97-98 / clean 167-168: the name is generated and the file opened "wb".
\* ok = FALSE: aiof.open raises OSError and nothing is created.
Receive(r, flow, name, ftype, cfg, ok) ==
    LET p == ArtifactPath(uuid4(r), name) IN
    /\ pc[r] = "idle" /\ LoopFree
    /\ \A q \in Reqs : q < r => pc[q] # "idle"
    /\ ok \/ nfaults < MaxFaults
    /\ req' = [req EXCEPT ![r] = [flow |-> flow, name |-> name, ftype |-> ftype,
                                  filename |-> p,
                                  lightweight |-> cfg.lightweight,
                                  unknown_members |-> cfg.unknown_members,
                                  sandbox |-> cfg.sandbox]]
    /\ IF ok /\ (~exists(p) \/ isfile(p))
       THEN /\ fs' = FsPut(fs, p, IF exists(p)
                                  THEN [fs[p] EXCEPT !.data = <<"empty", r>>]
                                  ELSE NewFile(r, <<"empty", r>>))
            /\ crossAccess' = crossAccess \cup Touch(r, p)
            /\ pc' = [pc EXCEPT ![r] = "write"]
            /\ UNCHANGED <<resp, nfaults, faults>>
       ELSE /\ resp' = [resp EXCEPT ![r] = Raised("OSError", "open failed")]
            /\ pc' = [pc EXCEPT ![r] = "done"]
            /\ nfaults' = IF ok THEN nfaults ELSE nfaults + 1
            /\ faults' = [faults EXCEPT ![r] = @ \cup {"open"}]
            /\ UNCHANGED <<fs, crossAccess>>
    /\ UNCHANGED <<health, pending, future, queue, worker, poolBroken, removals, engineCalls>>

\* show 99-100 / clean 169-170: write, flush, close.
\* ok = FALSE: the write raises OSError (disk full); the exception leaves the
\* handler before its try block is entered.
Write(r, ok) ==
    LET p == req[r].filename IN
    /\ pc[r] = "write" /\ LoopFree
    /\ ok \/ nfaults < MaxFaults
    /\ IF ok
       THEN /\ fs' = IF exists(p) THEN [fs EXCEPT ![p].data = <<"raw", r>>] ELSE fs
            /\ pc' = [pc EXCEPT ![r] = "persisted"]
            /\ UNCHANGED <<resp, nfaults, faults>>
       ELSE /\ fs' = IF exists(p) THEN [fs EXCEPT ![p].data = <<"partial", r>>] ELSE fs
            /\ resp' = [resp EXCEPT ![r] = Raised("OSError", "write failed")]
            /\ pc' = [pc EXCEPT ![r] = "done"]
            /\ nfaults' = nfaults + 1
            /\ faults' = [faults EXCEPT ![r] = @ \cup {"write"}]
    /\ crossAccess' = crossAccess \cup Touch(r, p)
    /\ UNCHANGED <<health, req, pending, future, queue, worker, poolBroken, removals,
                   engineCalls>>

\* Another process changes the artifact between the write and the check of
\* __check_file: the cases that check tests for (missing, not a regular
\* file, mode bits).
ExternalChange(r, how) ==
    LET p == req[r].filename IN
    /\ pc[r] = "persisted"
    /\ isfile(p) /\ fs[p].owner = r
    /\ nfaults < MaxFaults
    /\ nfaults' = nfaults + 1
    /\ faults' = [faults EXCEPT ![r] = @ \cup {how}]
    /\ fs' = CASE how = "remove" -> FsDel(fs, p)
               [] how = "replace" -> [fs EXCEPT ![p].kind = "other"]
               [] how = "readonly" -> [fs EXCEPT ![p].mode = R_OK]
               [] OTHER -> [fs EXCEPT ![p].mode = {}]
    /\ UNCHANGED <<health, req, pc, pending, resp, future, queue, worker, poolBroken,
                   removals, crossAccess, engineCalls>>

\* ------------------------------------------------------------------ /show/
\* show 101-102 with get_meta 115-127, all on the event-loop thread:
\* __check_file, get_parser, p.sandbox, then the call of p.get_meta().
ShowGetMeta(r) ==
    LET p == req[r].filename
        t == req[r].ftype IN
    /\ pc[r] = "persisted" /\ req[r].flow = "show" /\ LoopFree
    /\ crossAccess' = crossAccess \cup Touch(r, p)
    /\ IF ~check_file(p, R_OK)
       THEN /\ pending' = [pending EXCEPT ![r] = HTTPException(500, "File error")]
            /\ pc' = [pc EXCEPT ![r] = "finally"]
            /\ UNCHANGED engineCalls
       ELSE IF t = "badparse"
       THEN /\ pending' = [pending EXCEPT ![r] =
                  HTTPException(400, "something went wrong during processing")]
            /\ pc' = [pc EXCEPT ![r] = "finally"]
            /\ engineCalls' = engineCalls \cup {<<r, "get_parser", "handler">>}
       ELSE IF t = "unsupported"
       THEN /\ pending' = [pending EXCEPT ![r] =
                  HTTPException(400, "format is not supported")]
            /\ pc' = [pc EXCEPT ![r] = "finally"]
            /\ engineCalls' = engineCalls \cup {<<r, "get_parser", "handler">>}
       ELSE /\ pc' = [pc EXCEPT ![r] = "get_meta"]
            /\ engineCalls' = engineCalls \cup {<<r, "get_parser", "handler">>,
                                                <<r, "get_meta", "handler">>}
            /\ UNCHANGED pending
    /\ UNCHANGED <<health, fs, req, resp, future, queue, worker, poolBroken, nfaults,
                   removals, faults>>

\* get_meta 128 and show 103-110: p.get_meta() returns the metadata or
\* raises; anything but an HTTPException becomes the 500 of line 110.
ShowMetaReturn(r) ==
    LET p == req[r].filename
        t == req[r].ftype IN
    /\ pc[r] = "get_meta"
    /\ pc' = [pc EXCEPT ![r] = "finally"]
    /\ pending' = [pending EXCEPT ![r] =
          IF t \in {"valid", "noclean"} /\ exists(p)
          THEN Success(<<"meta", fs[p].data[2]>>)
          ELSE HTTPException(500, "Metadata cannot be extracted")]
    /\ UNCHANGED <<health, fs, req, resp, future, queue, worker, poolBroken, nfaults,
                   removals, crossAccess, engineCalls, faults>>

\* show 111-112: finally: os.remove(filename).  An exception raised here
\* replaces the return value or the exception in flight.
ShowFinally(r) ==
    LET p == req[r].filename IN
    /\ pc[r] = "finally" /\ req[r].flow = "show" /\ LoopFree
    /\ pc' = [pc EXCEPT ![r] = "done"]
    /\ crossAccess' = crossAccess \cup Touch(r, p)
    /\ IF isfile(p)
       THEN /\ fs' = FsDel(fs, p)
            /\ removals' = [removals EXCEPT ![r] = @ + 1]
            /\ resp' = [resp EXCEPT ![r] = pending[r]]
       ELSE /\ resp' = [resp EXCEPT ![r] =
                  IF exists(p) THEN Raised("IsADirectoryError", "os.remove failed")
                  ELSE Raised("FileNotFoundError", "os.remove failed")]
            /\ UNCHANGED <<fs, removals>>
    /\ UNCHANGED <<health, req, pending, future, queue, worker, poolBroken, nfaults,
                   engineCalls, faults>>

\* ----------------------------------------------------------------- /clean/
\* A task of the pool ends with result res: the Future is completed and the
\* worker process goes back to waiting for work.
Complete(w, r, res) ==
    /\ future' = [future EXCEPT ![r].state = "done", ![r].result = res]
    /\ worker' = [worker EXCEPT ![w] = IdleWorker]

\* clean 171-181: loop.run_in_executor(pool, clean_meta, ...).
\* submit() on a broken executor raises BrokenProcessPool at once.
\* how # "ok": submit() fails for lack of resources; spawning a worker
\* process raises OSError, starting the manager thread raises RuntimeError.
Dispatch(r, how) ==
    /\ pc[r] = "persisted" /\ req[r].flow = "clean" /\ LoopFree
    /\ how = "ok" \/ nfaults < MaxFaults
    /\ IF how # "ok"
       THEN /\ pending' = [pending EXCEPT ![r] =
                  IF how = "oserror" THEN Raised("OSError", "cannot spawn worker")
                  ELSE HTTPException(400, "can't start new thread")]
            /\ pc' = [pc EXCEPT ![r] = "finally"]
            /\ nfaults' = nfaults + 1
            /\ faults' = [faults EXCEPT ![r] = @ \cup {"submit"}]
            /\ UNCHANGED <<future, queue>>
       ELSE IF poolBroken
       THEN /\ pending' = [pending EXCEPT ![r] = HTTPException(400, BrokenProcessPool.msg)]
            /\ pc' = [pc EXCEPT ![r] = "finally"]
            /\ UNCHANGED <<future, queue, nfaults, faults>>
       ELSE /\ future' = [future EXCEPT ![r] =
                  [state |-> "pending", result |-> NoResult,
                   args |-> CleanMetaArgs(req[r].filename, req[r].lightweight,
                               req[r].sandbox,
                               UnknownMemberPolicy(req[r].unknown_members))]]
            /\ queue' = Append(queue, r)
            /\ pc' = [pc EXCEPT ![r] = "await"]
            /\ UNCHANGED <<pending, nfaults, faults>>
    /\ UNCHANGED <<health, fs, req, resp, worker, poolBroken, removals, crossAccess,
                   engineCalls>>

\* An idle worker process takes the oldest work item and runs clean_meta
\* 201-217: __check_file(filename, R_OK | W_OK), get_parser, parser settings.
\* The processes are interchangeable: the lowest-numbered idle one takes it.
WorkerBegin(w) ==
    /\ ~poolBroken /\ worker[w].step = "idle" /\ queue # <<>>
    /\ \A v \in Workers : v < w => worker[v].step # "idle"
    /\ LET r == Head(queue)
           \* clean_meta's parameters, bound by position
           p == future[r].args[1]
           is_lightweight == future[r].args[2]
           sandbox == future[r].args[4]
           policy == future[r].args[5]
           t == req[r].ftype IN
       /\ queue' = Tail(queue)
       /\ crossAccess' = crossAccess \cup Touch(r, p)
       /\ IF ~check_file(p, R_OK \cup W_OK)
          THEN /\ Complete(w, r, Ret(FALSE))
               /\ UNCHANGED engineCalls
          ELSE /\ engineCalls' = engineCalls \cup {<<r, "get_parser", "worker">>}
               /\ IF t = "badparse"
                  THEN Complete(w, r, Exc("ValueError", "something went wrong during cleaning"))
                  ELSE IF t = "unsupported"
                  THEN Complete(w, r, Exc("ValueError", "format is not supported"))
                  ELSE /\ worker' = [worker EXCEPT ![w] =
                              [task |-> r, step |-> "remove_all",
                               parser |-> [unknown_member_policy |-> policy,
                                           lightweight_cleaning |-> is_lightweight,
                                           sandbox |-> sandbox]]]
                       /\ future' = [future EXCEPT ![r].state = "running"]
    /\ UNCHANGED <<health, fs, req, pc, pending, resp, poolBroken, nfaults, removals,
                   faults>>

\* clean_meta 219-222 and 227-229: ret = p.remove_all().
\* gone: what the engine does when the input has vanished (it returns False
\* or lets the OSError through; either is possible).
\* omode: the permission bits the engine's output file is created with.
WorkerRemoveAll(w, gone, omode) ==
    /\ worker[w].step = "remove_all"
    /\ LET r == worker[w].task
           p == req[r].filename
           o == output_filename(p)
           t == req[r].ftype IN
       /\ t \notin {"crash", "hang"}
       /\ engineCalls' = engineCalls \cup {<<r, "remove_all", "worker">>}
       /\ crossAccess' = crossAccess \cup Touch(r, p) \cup Touch(r, o)
       /\ IF ~isfile(p)
          THEN /\ Complete(w, r, IF gone = "false" THEN Ret(FALSE)
                                 ELSE Exc("OSError", "input file missing"))
               /\ UNCHANGED fs
          ELSE IF t = "valid"
          THEN /\ fs' = FsPut(fs, o, [NewFile(r, <<"clean", fs[p].data[2]>>)
                                         EXCEPT !.mode = omode])
               /\ worker' = [worker EXCEPT ![w].step = "copymode"]
               /\ UNCHANGED future
          ELSE /\ Complete(w, r, IF t = "noclean" THEN Ret(FALSE)
                                 ELSE IF t = "rterr" THEN Exc("RuntimeError", "can't be cleaned")
                                 ELSE Exc("Exception", "engine error"))
               /\ UNCHANGED fs
    /\ UNCHANGED <<health, req, pc, pending, resp, queue, poolBroken, nfaults, removals,
                   faults>>

\* remove_all never returns: the worker process stays busy for good.
WorkerHang(w) ==
    /\ worker[w].step = "remove_all" /\ req[worker[w].task].ftype = "hang"
    /\ worker' = [worker EXCEPT ![w].step = "hung"]
    /\ engineCalls' = engineCalls \cup {<<worker[w].task, "remove_all", "worker">>}
    /\ UNCHANGED <<health, fs, req, pc, pending, resp, future, queue, poolBroken, nfaults,
                   removals, crossAccess, faults>>

\* The process running remove_all dies.  ProcessPoolExecutor marks itself
\* broken, fails every pending and running Future with BrokenProcessPool,
\* terminates the other workers, and is never re-created (line 46).
WorkerCrash(w) ==
    /\ worker[w].step = "remove_all" /\ req[worker[w].task].ftype = "crash"
    /\ poolBroken' = TRUE
    /\ engineCalls' = engineCalls \cup {<<worker[w].task, "remove_all", "worker">>}
    /\ future' = [r \in Reqs |->
                    IF future[r].state \in {"pending", "running"}
                    THEN [future[r] EXCEPT !.state = "done", !.result = BrokenProcessPool]
                    ELSE future[r]]
    /\ queue' = <<>>
    /\ worker' = [v \in Workers |-> [IdleWorker EXCEPT !.step = "dead"]]
    /\ UNCHANGED <<health, fs, req, pc, pending, resp, nfaults, removals, crossAccess,
                   faults>>

\* clean_meta 222-223: shutil.copymode(filename, p.output_filename).
\* It raises FileNotFoundError, which clean_meta does not catch, when either
\* path is missing.  ok = FALSE: the chmod is refused (PermissionError).
WorkerCopymode(w, ok) ==
    /\ worker[w].step = "copymode"
    /\ ok \/ nfaults < MaxFaults
    /\ LET r == worker[w].task
           p == req[r].filename
           o == output_filename(p) IN
       /\ crossAccess' = crossAccess \cup Touch(r, p) \cup Touch(r, o)
       /\ nfaults' = IF ok THEN nfaults ELSE nfaults + 1
       /\ faults' = IF ok THEN faults ELSE [faults EXCEPT ![r] = @ \cup {"copymode"}]
       /\ IF ok /\ exists(p) /\ exists(o)
          THEN /\ fs' = copymode(fs, p, o)
               /\ worker' = [worker EXCEPT ![w].step = "rename"]
               /\ UNCHANGED future
          ELSE /\ Complete(w, r, Exc("OSError", "copymode failed"))
               /\ UNCHANGED fs
    /\ UNCHANGED <<health, req, pc, pending, resp, queue, poolBroken, removals,
                   engineCalls>>

\* clean_meta 224-226: os.rename(p.output_filename, filename); return ret.
\* rename creates the destination when it is missing and replaces it when it
\* is a regular file.  ok = FALSE: the rename is refused (OSError: output on
\* another filesystem, directory not writable).
WorkerRename(w, ok) ==
    /\ worker[w].step = "rename"
    /\ ok \/ nfaults < MaxFaults
    /\ LET r == worker[w].task
           p == req[r].filename
           o == output_filename(p) IN
       /\ crossAccess' = crossAccess \cup Touch(r, p) \cup Touch(r, o)
       /\ nfaults' = IF ok THEN nfaults ELSE nfaults + 1
       /\ faults' = IF ok THEN faults ELSE [faults EXCEPT ![r] = @ \cup {"rename"}]
       /\ IF ok /\ exists(o) /\ (~exists(p) \/ isfile(p))
          THEN /\ fs' = FsDel(FsPut(fs, p, fs[o]), o)
               /\ Complete(w, r, Ret(TRUE))
          ELSE /\ Complete(w, r, Exc("OSError", "rename failed"))
               /\ UNCHANGED fs
    /\ UNCHANGED <<health, req, pc, pending, resp, queue, poolBroken, removals,
                   engineCalls>>

\* clean 180-193: the await returns or raises what the task produced.
AwaitResult(r) ==
    LET res == future[r].result IN
    /\ pc[r] = "await" /\ future[r].state = "done" /\ LoopFree
    /\ IF res.kind = "ret" /\ res.val
       THEN /\ pc' = [pc EXCEPT ![r] = "capture"]
            /\ UNCHANGED pending
       ELSE /\ pc' = [pc EXCEPT ![r] = "finally"]
            /\ pending' = [pending EXCEPT ![r] =
                  IF res.kind = "ret" THEN NoOutcome
                  ELSE IF IsValueError(res.cls) \/ IsRuntimeError(res.cls)
                  THEN HTTPException(400, res.msg)
                  ELSE Raised(res.cls, res.msg)]
    /\ UNCHANGED <<health, fs, req, resp, future, queue, worker, poolBroken, nfaults,
                   removals, crossAccess, engineCalls, faults>>

\* The request's task is cancelled (client gone, server shutting down) while
\* it awaits the pool: CancelledError is thrown at line 180, no except clause
\* matches it, the finally block runs.  A work item still queued is dropped;
\* a running one is left to finish and its result is never read.
Cancel(r) ==
    /\ pc[r] = "await" /\ LoopFree
    /\ pending' = [pending EXCEPT ![r] = Cancelled]
    /\ pc' = [pc EXCEPT ![r] = "finally"]
    /\ IF future[r].state = "pending"
       THEN /\ queue' = SelectSeq(queue, LAMBDA q : q # r)
            /\ future' = [future EXCEPT ![r].state = "cancelled"]
       ELSE UNCHANGED <<queue, future>>
    /\ UNCHANGED <<health, fs, req, resp, worker, poolBroken, nfaults, removals,
                   crossAccess, engineCalls, faults>>

\* clean 183-189 with cache_delete_file 232-238: read the file into memory,
\* os.remove it, return the StreamingResponse.  A failing open raises OSError,
\* which no except clause of clean matches.
Capture(r) ==
    LET p == req[r].filename IN
    /\ pc[r] = "capture" /\ LoopFree
    /\ pc' = [pc EXCEPT ![r] = "finally"]
    /\ crossAccess' = crossAccess \cup Touch(r, p)
    /\ IF isfile(p) /\ access(p, R_OK)
       THEN /\ pending' = [pending EXCEPT ![r] = Success(fs[p].data)]
            /\ fs' = cache_delete_file(fs, p)
            /\ removals' = [removals EXCEPT ![r] = @ + 1]
       ELSE /\ pending' = [pending EXCEPT ![r] = Raised("OSError", "open failed")]
            /\ UNCHANGED <<fs, removals>>
    /\ UNCHANGED <<health, req, resp, future, queue, worker, poolBroken, nfaults,
                   engineCalls, faults>>

\* clean 194-198: finally: remove the file if it is still there; then the
\* return value or exception in flight goes out, or line 198 raises.
CleanFinally(r) ==
    LET p == req[r].filename IN
    /\ pc[r] = "finally" /\ req[r].flow = "clean" /\ LoopFree
    /\ pc' = [pc EXCEPT ![r] = "done"]
    /\ crossAccess' = crossAccess \cup Touch(r, p)
    /\ IF isfile(p)
       THEN /\ fs' = FsDel(fs, p)
            /\ removals' = [removals EXCEPT ![r] = @ + 1]
       ELSE UNCHANGED <<fs, removals>>
    /\ resp' = [resp EXCEPT ![r] =
          IF pending[r].type = "none"
          THEN HTTPException(400, "Failed to remove metadata")
          ELSE pending[r]]
    /\ UNCHANGED <<health, req, pending, future, queue, worker, poolBroken, nfaults,
                   engineCalls, faults>>

\* --------------------------------------------------------------- /healthz
\* get_health 242-248, a plain function FastAPI runs on a threadpool thread,
\* at any time relative to the requests in flight.
Health(report) ==
    /\ health' = [status |-> get_health(report), printed |-> HealthLines(report)]
    /\ UNCHANGED <<fs, req, pc, pending, resp, future, queue, worker, poolBroken,
                   nfaults, removals, crossAccess, engineCalls, faults>>

\* ------------------------------------------------------------ specification
Next ==
    \/ \E r \in Reqs, flow \in Flows, name \in Names, ok \in BOOLEAN :
         \E ftype \in FlowFTypes(flow), cfg \in FlowConfigs(flow, {DefaultConfig, OtherConfig}) :
            Receive(r, flow, name, ftype, cfg, ok)
    \/ \E r \in Reqs, ok \in BOOLEAN : Write(r, ok)
    \/ \E r \in Reqs, how \in {"remove", "replace", "readonly", "noaccess"} :
         ExternalChange(r, how)
    \/ \E r \in Reqs : ShowGetMeta(r)
    \/ \E r \in Reqs : ShowMetaReturn(r)
    \/ \E r \in Reqs : ShowFinally(r)
    \/ \E r \in Reqs, how \in {"ok", "oserror", "rterror"} : Dispatch(r, how)
    \/ \E w \in Workers : WorkerBegin(w)
    \/ \E w \in Workers, gone \in {"false", "raise"}, omode \in EngineModes :
         WorkerRemoveAll(w, gone, omode)
    \/ \E w \in Workers : WorkerHang(w)
    \/ \E w \in Workers : WorkerCrash(w)
    \/ \E w \in Workers, ok \in BOOLEAN : WorkerCopymode(w, ok)
    \/ \E w \in Workers, ok \in BOOLEAN : WorkerRename(w, ok)
    \/ \E r \in Reqs : AwaitResult(r)
    \/ \E r \in Reqs : Cancel(r)
    \/ \E r \in Reqs : Capture(r)
    \/ \E r \in Reqs : CleanFinally(r)

Spec == Init /\ [][Next]_vars

\* The pipeline left alone: no filesystem or resource fault is injected and
\* no worker process dies or hangs.  Requests succeed or fail in the ways the
\* handlers provide for (no parser, remove_all returning False, RuntimeError),
\* and may be cancelled.  They carry the default parameters, and the engine's
\* output is created with bits other than the upload's.
NextNoFault ==
    \/ \E r \in Reqs, flow \in Flows, name \in Names :
         \E ftype \in FlowFTypes(flow) \cap {"valid", "unsupported", "noclean", "rterr"} :
            Receive(r, flow, name, ftype, DefaultConfig, TRUE)
    \/ \E r \in Reqs : Write(r, TRUE)
    \/ \E r \in Reqs : ShowGetMeta(r)
    \/ \E r \in Reqs : ShowMetaReturn(r)
    \/ \E r \in Reqs : ShowFinally(r)
    \/ \E r \in Reqs : Dispatch(r, "ok")
    \/ \E w \in Workers : WorkerBegin(w)
    \/ \E w \in Workers, gone \in {"false", "raise"} :
         WorkerRemoveAll(w, gone, PrivateMode)
    \/ \E w \in Workers : WorkerCopymode(w, TRUE)
    \/ \E w \in Workers : WorkerRename(w, TRUE)
    \/ \E r \in Reqs : AwaitResult(r)
    \/ \E r \in Reqs : Cancel(r)
    \/ \E r \in Reqs : Capture(r)
    \/ \E r \in Reqs : CleanFinally(r)

SpecNoFault == Init /\ [][NextNoFault]_vars

\* /clean/ under different configurations of the three query parameters, on
\* files the engine cleans or refuses to clean.
NextConfig ==
    \/ \E r \in Reqs, name \in Names, ftype \in {"valid", "noclean"}, cfg \in CleanConfigs :
         Receive(r, "clean", name, ftype, cfg, TRUE)
    \/ \E r \in Reqs : Write(r, TRUE)
    \/ \E r \in Reqs : Dispatch(r, "ok")
    \/ \E w \in Workers : WorkerBegin(w)
    \/ \E w \in Workers : WorkerRemoveAll(w, "false", DefaultMode)
    \/ \E w \in Workers : WorkerCopymode(w, TRUE)
    \/ \E w \in Workers : WorkerRename(w, TRUE)
    \/ \E r \in Reqs : AwaitResult(r)
    \/ \E r \in Reqs : Capture(r)
    \/ \E r \in Reqs : CleanFinally(r)

SpecConfig == Init /\ [][NextConfig]_vars

\* The health probe beside the pipeline: /healthz is called at any moment
\* while requests for files the engine handles are served.
NextHealth ==
    \/ \E report \in DependencyReports : Health(report)
    \/ \E r \in Reqs, flow \in Flows, name \in Names :
         Receive(r, flow, name, "valid", DefaultConfig, TRUE)
    \/ \E r \in Reqs : Write(r, TRUE)
    \/ \E r \in Reqs : ShowGetMeta(r)
    \/ \E r \in Reqs : ShowMetaReturn(r)
    \/ \E r \in Reqs : ShowFinally(r)
    \/ \E r \in Reqs : Dispatch(r, "ok")
    \/ \E w \in Workers : WorkerBegin(w)
    \/ \E w \in Workers : WorkerRemoveAll(w, "false", DefaultMode)
    \/ \E w \in Workers : WorkerCopymode(w, TRUE)
    \/ \E w \in Workers : WorkerRename(w, TRUE)
    \/ \E r \in Reqs : AwaitResult(r)
    \/ \E r \in Reqs : Capture(r)
    \/ \E r \in Reqs : CleanFinally(r)

SpecHealth == Init /\ [][NextHealth]_vars

\* ------------------------------------------------------------------ claims
Done(r) == pc[r] = "done"
Responded(r) == Done(r) /\ resp[r].type # "cancel"
Received(r) == pc[r] # "idle"
\* the pool no longer works on r's task
TaskOver(r) ==
    /\ future[r].state \in {"none", "done", "cancelled"}
    /\ \A w \in Workers : worker[w].task # r
\* __check_file returned False for r's artifact
CheckFailed(r) ==
    IF req[r].flow = "show"
    THEN pc[r] \in {"finally", "done"} /\ <<r, "get_parser", "handler">> \notin engineCalls
    ELSE future[r].result = Ret(FALSE) /\ <<r, "get_parser", "worker">> \notin engineCalls
\* the detail strings of engine-reported failures on /clean/
EngineDetails == {"something went wrong during cleaning", "format is not supported",
                  "can't be cleaned", "Failed to remove metadata"}

\* C1: once a /show/ or /clean/ request has produced its response, whatever
\* the outcome, the artifact file created for it no longer exists.
\* The code leaves the file behind when the write at 99-100 / 169-170 fails.
C1_NoArtifactAfterResponse ==
    \A r \in Reqs : Responded(r) => ~exists(req[r].filename)

\* C2: a /clean/ request cancelled while its task is queued or running still
\* cleans up, and once the discarded task is over neither the artifact path
\* nor the engine's output path exists, for every interleaving (stated for
\* requests hit by no fault, with the pool intact).
\* The code's cleanup can run before the worker's copymode or rename.
C2_CancelLeavesNoFile ==
    \A r \in Reqs :
        (Done(r) /\ resp[r].type = "cancel" /\ TaskOver(r) /\ ~poolBroken
                 /\ faults[r] = {})
            => /\ ~exists(req[r].filename)
               /\ ~exists(output_filename(req[r].filename))

\* C3: requests uploading the same client file name get distinct artifact
\* paths, no request's code touches a file created by another request, every
\* file holds data of the request that owns it, and every success response
\* carries the result computed from that request's own upload.
C3_NoCollision ==
    /\ crossAccess = {}
    /\ \A r, q \in Reqs :
          (Received(r) /\ Received(q) /\ r # q) => req[r].filename # req[q].filename
    /\ \A p \in DOMAIN fs : fs[p].data[2] = fs[p].owner
    /\ \A r \in Reqs :
          (Done(r) /\ resp[r].type = "ok")
              => resp[r].data = <<IF req[r].flow = "show" THEN "meta" ELSE "clean", r>>

\* C3 witness: a later request with the same client file name has received its
\* own cleaned bytes while an earlier one still has its cleaned artifact on disk.
C3_Witness ==
    \E r, q \in Reqs :
        /\ r < q /\ req[r].name = req[q].name
        /\ req[r].flow = "clean" /\ req[q].flow = "clean"
        /\ pc[r] = "capture" /\ isfile(req[r].filename)
        /\ fs[req[r].filename].data = <<"clean", r>>
        /\ Done(q) /\ resp[q] = Success(<<"clean", q>>)

\* C4: a failing final cleanup never replaces the primary error: the client
\* receives the status code and detail of the HTTPException in flight.
\* In /show/ the unguarded os.remove raises when the artifact is missing.
C4_CleanupNeverOverridesError ==
    \A r \in Reqs : (Done(r) /\ pending[r].type = "http") => resp[r] = pending[r]

\* C5: in every request whose artifact was created, the handler removes it
\* exactly once (after a capture the final cleanup deletes nothing more).
\* Fails on the path of C1: a failed write never reaches the cleanup.
C5_RemovedExactlyOnce ==
    \A r \in Reqs : (Done(r) /\ "open" \notin faults[r]) => removals[r] = 1

\* C6: a worker's crash or hang does not harm the serving process: a /clean/
\* request for a valid file, hit by no fault of its own and not cancelled, is
\* dispatched to the pool and ends with its success response.
\* After a crash the executor stays broken and is never re-created.
C6_CrashIsolated ==
    \A r \in Reqs :
        (Responded(r) /\ req[r].flow = "clean" /\ req[r].ftype = "valid"
                      /\ faults[r] = {})
            => future[r].state = "done" /\ resp[r].type = "ok"

\* C7: every engine call, in both flows, runs in a worker process of the pool.
\* get_meta (115-128) calls the engine on the event-loop thread.
C7_EngineOnlyInPool ==
    \A c \in engineCalls : c[3] = "worker"

\* C8: in both flows, an artifact failing the accessibility check ends the
\* request with a 500-class error.
\* clean_meta returns False there, and clean answers 400.
C8_CheckFailureIs500 ==
    \A r \in Reqs :
        (Responded(r) /\ CheckFailed(r)) => resp[r].status = 500

\* C9: in /clean/, a pool task that cannot complete (worker crash, resource
\* exhaustion raised from the dispatch) ends the request with a 400 whose
\* detail is the exception's message, unlike any engine-reported failure.
\* An OSError from submit() matches no except clause of clean.
C9_DispatchFailureIs400 ==
    \A r \in Reqs :
        (Responded(r) /\ req[r].flow = "clean"
            /\ ("submit" \in faults[r] \/ future[r].result = BrokenProcessPool))
            => /\ resp[r].type = "http" /\ resp[r].status = 400
               /\ resp[r].detail \notin EngineDetails

\* C10: every request ends with a success payload or a structured error of
\* status 400 or 500; nothing else escapes a handler, whatever the engine
\* raises (stated here for requests that no filesystem fault has hit).
\* A non-RuntimeError raised by remove_all escapes clean.
C10_OnlyStructuredErrors ==
    \A r \in Reqs :
        (Responded(r) /\ faults[r] = {})
            => \/ resp[r].type = "ok"
               \/ resp[r].type = "http" /\ resp[r].status \in {400, 500}

\* get_parser returned (None, mtype) for r's artifact
NoParser(r) ==
    /\ req[r].ftype = "unsupported"
    /\ \E where \in {"handler", "worker"} : <<r, "get_parser", where>> \in engineCalls

\* C11: when the engine resolves no parser for the artifact, the request, in
\* /show/ as in /clean/, ends with status 400 and the detail saying that the
\* format is not supported; it never ends with a success or a 500.
C11_NoParserIs400 ==
    \A r \in Reqs :
        (Responded(r) /\ NoParser(r))
            => resp[r] = HTTPException(400, "format is not supported")

\* C11 witness: a /show/ and a /clean/ request have both been answered after
\* get_parser found no parser for their files.
C11_Witness ==
    \E r, q \in Reqs :
        /\ req[r].flow = "show" /\ req[q].flow = "clean"
        /\ Responded(r) /\ NoParser(r) /\ resp[r].status = 400
        /\ Responded(q) /\ NoParser(q) /\ resp[q].status = 400

\* C12: on a successful clean the artifact is deleted from disk before the
\* success response exists: from the moment the StreamingResponse over the
\* in-memory buffer is being returned, the artifact path holds no file, and
\* the response carries the captured bytes.
C12_DeletedBeforeSuccess ==
    \A r \in Reqs :
        (req[r].flow = "clean" /\ (pending[r].type = "ok" \/ resp[r].type = "ok"))
            => /\ ~exists(req[r].filename)
               /\ removals[r] >= 1
               /\ pending[r].data # NoData

\* C12 witness: the StreamingResponse has been built and is about to be
\* returned through the finally block.
C12_Witness ==
    \E r \in Reqs :
        /\ req[r].flow = "clean" /\ pc[r] = "finally"
        /\ pending[r] = Success(<<"clean", r>>)

\* C13: GET /healthz answers the fixed value OK for every dependency report,
\* also one in which a dependency, required or optional, is not found, and
\* the call changes nothing of the state the requests share.
C13_HealthAlwaysOK ==
    [][health' # health =>
          /\ health'.status = "OK"
          /\ UNCHANGED <<fs, req, pc, pending, resp, future, queue, worker,
                         poolBroken, nfaults, removals, crossAccess, engineCalls,
                         faults>>]_vars

\* C13 witness: the probe has answered on a report with a required dependency
\* missing, while a request was being served.
C13_Witness ==
    /\ health.status # ""
    /\ \E d \in Deps : <<d, "no", "">> \in health.printed
    /\ \E r \in Reqs : InFlight(r)

\* the engine or the pool has been given r's artifact path
PathHandedOver(r) ==
    \/ future[r].state # "none"
    \/ \E c \in engineCalls : c[1] = r

\* C14: within each request the steps are strictly sequential: the upload is
\* completely written before the engine or a worker is given the path (no
\* partly written file is there to be observed), the outcome of the
\* processing is known before the cleanup of a request that is not
\* cancelled, and every response, success or error, of a request whose
\* artifact was created is produced by the step that has run the cleanup.
\* A failed write (99-100 / 169-170) answers from outside the try block.
C14_StrictlySequential ==
    [][\A r \in Reqs :
          /\ PathHandedOver(r)' =>
                /\ pc'[r] \notin {"idle", "write"}
                /\ "write" \notin faults'[r]
          /\ (pc'[r] \in {"persisted", "get_meta", "await", "capture"}
                  /\ req'[r].filename \in DOMAIN fs')
                => fs'[req'[r].filename].data[1] \in {"raw", "clean"}
          /\ (pc'[r] = "finally" /\ pending'[r].type # "cancel")
                => /\ future'[r].state \in {"none", "done"}
                   /\ req'[r].flow = "show" => pending'[r].type # "none"
          /\ (resp'[r] # resp[r] /\ "open" \notin faults'[r])
                => pc[r] = "finally"]_vars

\* C15: when remove_all has succeeded, the permission bits of the original
\* are copied onto the output before the rename, and once clean_meta has
\* returned True the output path is gone and the original path, until the
\* handler consumes it, holds the cleaned content with the original's bits.
C15_CopymodeThenRename ==
    \A r \in Reqs :
        LET p == req[r].filename
            o == output_filename(p) IN
        /\ \A w \in Workers :
              (worker[w].task = r /\ worker[w].step = "rename" /\ exists(p) /\ exists(o))
                  => fs[o].mode = fs[p].mode
        /\ future[r].result = Ret(TRUE) =>
              /\ ~exists(o)
              /\ pc[r] \in {"await", "capture"} =>
                    /\ isfile(p)
                    /\ fs[p].data = <<"clean", r>>
                    /\ fs[p].mode = DefaultMode

\* C15 witness: clean_meta has returned True, the handler has not read the
\* result yet, and the artifact path holds the cleaned content.
C15_Witness ==
    \E r \in Reqs :
        /\ future[r].result = Ret(TRUE) /\ pc[r] = "await"
        /\ isfile(req[r].filename)
        /\ fs[req[r].filename].data = <<"clean", r>>
        /\ ~exists(output_filename(req[r].filename))

\* C16: for every clean request, remove_all is invoked only once the parser
\* carries the unknown-member policy, the lightweight flag and the sandbox
\* flag, and these are exactly the request's unknown_members, lightweight
\* and sandbox parameters: none is swapped or defaulted on the way through
\* run_in_executor.
C16_ConfigReachesParser ==
    \A w \in Workers :
        worker[w].step \in {"remove_all", "hung", "copymode", "rename"} =>
            LET r == worker[w].task IN
            /\ req[r].flow = "clean"
            /\ worker[w].parser =
                  [unknown_member_policy |-> UnknownMemberPolicy(req[r].unknown_members),
                   lightweight_cleaning |-> req[r].lightweight,
                   sandbox |-> req[r].sandbox]
            /\ future[r].args[3] = TRUE

\* C16 witness: remove_all has run for a request whose three parameters all
\* differ from the defaults, and for one sent with the defaults.
C16_Witness ==
    \E w, v \in Workers :
        /\ worker[w].step = "copymode" /\ worker[v].step = "copymode"
        /\ req[worker[w].task].lightweight /\ ~req[worker[w].task].sandbox
        /\ req[worker[w].task].unknown_members = "omit"
        /\ ~req[worker[v].task].lightweight /\ req[worker[v].task].sandbox
        /\ req[worker[v].task].unknown_members = "abort"

\* an engine invocation (get_meta, remove_all) is executing for r
EngineExecuting(r) ==
    \/ pc[r] = "get_meta"
    \/ \E w \in Workers : worker[w].task = r /\ worker[w].step \in {"remove_all", "hung"}
\* the work items and running tasks of the pool that belong to r
TasksOf(r) ==
    Len(SelectSeq(queue, LAMBDA q : q = r))
        + Cardinality({w \in Workers : worker[w].task = r})

C18_SuccessIsCleanedOutput ==
    \A r \in Reqs :
        (req[r].flow = "clean" /\ (pending[r].type = "ok" \/ resp[r].type = "ok"))
            => /\ <<r, "remove_all", "worker">> \in engineCalls
               /\ future[r].state = "done" /\ future[r].result = Ret(TRUE)
               /\ req[r].ftype = "valid"
               /\ pending[r].data = <<"clean", r>>
               /\ resp[r].type = "ok" => resp[r].data = <<"clean", r>>

\* C18 witness: a clean request has been answered with its cleaned file
\* while another one was refused by the engine.
C18_Witness ==
    \E r, q \in Reqs :
        /\ req[r].flow = "clean" /\ Done(r) /\ resp[r] = Success(<<"clean", r>>)
        /\ req[q].flow = "clean" /\ req[q].ftype = "noclean" /\ Done(q)
        /\ resp[q].type = "http"

\* C19: once a /clean/ request has been answered and its task is over,
\* whatever the outcome (the engine refuses, the engine raises, copymode or
\* the rename fails, success), no output file of the engine for that request
\* is left on disk (stated with the pool intact).
\* clean_meta removes the output nowhere: a failed copymode or rename leaves it.
C19_NoOutputLeftBehind ==
    \A r \in Reqs :
        (Responded(r) /\ req[r].flow = "clean" /\ TaskOver(r) /\ ~poolBroken)
            => ~exists(output_filename(req[r].filename))

====
